---- MODULE Spec2Model ----
(***************************************************************************)
(* Financial manager: the budget / report services (core/service.py), the  *)
(* state reducers (core/state_utils.py) and the operations the Streamlit   *)
(* application (app/main.py) issues on the session state.                  *)
(*                                                                         *)
(* Three specifications share the module:                                  *)
(*   SpecReport  BudgetService.monthly_report on bounded inputs            *)
(*   SpecAsync   ReportService.expenses_by_month as an asyncio fan-out     *)
(*   Spec        the session state under the application's operations     *)
(*                                                                         *)
(* Strings that are only compared are TLA+ strings.  Strings that are      *)
(* taken apart (ts, month keys) are sequences of characters, a character   *)
(* being a number of Chars.  Formatted ids are tuples: f"tx_evt_{n}" is    *)
(* <<"tx_evt", n>> and f"tx_{n}_{h}" is <<"tx", n, h>>.                    *)
(***************************************************************************)
EXTENDS Integers, Sequences, FiniteSets, TLC

VARIABLES
    rBudgets,   \* SpecReport: the budgets argument
    rTrans,     \* SpecReport: the trans argument
    report,     \* SpecReport: the returned dict (<<>> before the call)
    aTrans,     \* SpecAsync: the trans argument
    aMonths,    \* SpecAsync: the months argument
    callPc,     \* SpecAsync: position of the expenses_by_month coroutine
    taskPc,     \* SpecAsync: position of each calc_month task
    taskRes,    \* SpecAsync: value each finished calc_month task returned
    order,      \* SpecAsync: task indices in the order the tasks finished
    ret,        \* SpecAsync: the dict handed to the caller (<<>> if none)
    deadline,   \* SpecAsync: TRUE once the caller's deadline passed in flight
    state,      \* Spec: st.session_state.state
    user,       \* Spec: st.session_state.username ("" when logged out)
    ops,        \* Spec: number of state-changing operations done so far
    lastOp      \* Spec: the operation that produced state

reportVars == <<rBudgets, rTrans, report>>
asyncVars == <<aTrans, aMonths, callPc, taskPc, taskRes, order, ret, deadline>>
appVars == <<state, user, ops, lastOp>>
vars == <<rBudgets, rTrans, report, aTrans, aMonths, callPc, taskPc, taskRes,
          order, ret, deadline, state, user, ops, lastOp>>

----------------------------------------------------------------------------
(* Bounds *)

MaxBudgets == 2     \* budgets handed to monthly_report
MaxRTrans == 2      \* transactions handed to monthly_report
MaxMonths == 2      \* months handed to expenses_by_month
MaxATrans == 2      \* transactions handed to expenses_by_month
MaxOps == 2         \* state-changing operations in one session

----------------------------------------------------------------------------
(* Python helpers *)

abs(x) == IF x < 0 THEN -x ELSE x

\* sum(...) over a sequence of integers
RECURSIVE sum(_)
sum(s) == IF s = <<>> THEN 0 ELSE Head(s) + sum(Tail(s))

\* all sequences over S of length at most n
SeqUpTo(S, n) == UNION {[1..k -> S] : k \in 0..n}

Range(s) == {s[i] : i \in 1..Len(s)}

\* dict(zip(keys, values)): a later pair overwrites an earlier one with the
\* same key; zip stops at the shorter sequence
RECURSIVE DictZip(_, _)
DictZip(keys, values) ==
    IF keys = <<>> \/ values = <<>> THEN <<>>
    ELSE LET n == IF Len(keys) < Len(values) THEN Len(keys) ELSE Len(values)
             front == DictZip(SubSeq(keys, 1, n - 1), SubSeq(values, 1, n - 1))
         IN (keys[n] :> values[n]) @@ front

----------------------------------------------------------------------------
(* BudgetService.monthly_report *)

BudgetCats == {"food", "rent"}
BudgetIds == {"b1", "b2"}
BudgetLimits == {0, 300, 350}
ReportAmounts == {-200, -150, 100}

\* spent: sum(abs(t.amount) for t in trans if t.cat_id == b.cat_id and t.amount < 0)
Spent(b, trans) ==
    LET hit(t) == t.cat_id = b.cat_id /\ t.amount < 0
        kept == SelectSeq(trans, hit)
    IN sum([i \in 1..Len(kept) |-> abs(kept[i].amount)])

\* faulty variant: the limit itself counts as over
StatusOfStrict(spent, limit) == IF spent < limit THEN "OK" ELSE "OVER"

StatusOf(spent, limit) == IF spent <= limit THEN "OK" ELSE "OVER"

ReportEntry(b, trans) ==
    LET spent == Spent(b, trans)
    IN [limit |-> b.limit, spent |-> spent, status |-> StatusOf(spent, b.limit)]

\* the loop over budgets: report[b.id] = {...}
RECURSIVE monthly_report(_, _)
monthly_report(budgets, trans) ==
    IF budgets = <<>> THEN <<>>
    ELSE LET n == Len(budgets)
             b == budgets[n]
         IN (b.id :> ReportEntry(b, trans)) @@ monthly_report(SubSeq(budgets, 1, n - 1), trans)

RBudget == [id : BudgetIds, cat_id : BudgetCats, limit : BudgetLimits]
RTransaction == [cat_id : BudgetCats, amount : ReportAmounts]

\* budgets are identified by their ids
DistinctIds(s) == \A i, j \in 1..Len(s) : s[i].id = s[j].id => i = j

InitReport ==
    /\ rBudgets \in {bs \in SeqUpTo(RBudget, MaxBudgets) : DistinctIds(bs)}
    /\ rTrans \in SeqUpTo(RTransaction, MaxRTrans)
    /\ report = <<>>

GenerateBudgetReport ==
    /\ report = <<>>
    /\ rBudgets # <<>>
    /\ report' = monthly_report(rBudgets, rTrans)
    /\ UNCHANGED <<rBudgets, rTrans, asyncVars, appVars>>

NextReport == GenerateBudgetReport

----------------------------------------------------------------------------
(* ReportService.expenses_by_month *)

Chars == {1, 2}
NoneKey == <<0>>                \* a months entry that is not a str (None): 0 is no character
MonthKeys == {<<1>>, <<2>>, NoneKey}
Stamps == {<<1, 1>>, <<2, 1>>}  \* ts values: month character, day character
AsyncAmounts == {-2, 3}
ATransaction == [ts : Stamps, amount : AsyncAmounts]

IsStr(m) == \A i \in 1..Len(m) : m[i] \in Chars

\* str.startswith
startswith(s, prefix) == Len(prefix) <= Len(s) /\ SubSeq(s, 1, Len(prefix)) = prefix

\* t.ts.startswith(m) raises TypeError for the first transaction when m is no str
calc_month_raises(m, trans) == trans # <<>> /\ ~IsStr(m)

\* faulty variant: income counted with the expenses
calc_month_unsigned(m, trans) ==
    LET hit(t) == startswith(t.ts, m)
        kept == SelectSeq(trans, hit)
    IN sum([i \in 1..Len(kept) |-> abs(kept[i].amount)])

\* sum(abs(t.amount) for t in trans if t.ts.startswith(m) and t.amount < 0)
calc_month(m, trans) ==
    LET hit(t) == startswith(t.ts, m) /\ t.amount < 0
        kept == SelectSeq(trans, hit)
    IN sum([i \in 1..Len(kept) |-> abs(kept[i].amount)])

Tasks == 1..Len(aMonths)
Finished(i) == taskPc[i] \in {"done", "failed"}

\* faulty variant: the results in the order the tasks finished
GatherResultsByCompletion == [i \in Tasks |-> taskRes[order[i]]]

\* asyncio.gather(*tasks): the results in the order of the awaitables
GatherResults == [i \in Tasks |-> taskRes[i]]

\* faulty variant: gather(return_exceptions=True) yields once every child has finished
GatherReadyWithExceptions == \A i \in Tasks : Finished(i)

\* gather (return_exceptions=False) yields its result list once every child
\* has returned
GatherReady == \A i \in Tasks : taskPc[i] = "done"

\* gather raises as soon as one child has raised
GatherFailed == \E i \in Tasks : taskPc[i] = "failed"

InitAsync ==
    /\ aTrans \in SeqUpTo(ATransaction, MaxATrans)
    /\ aMonths \in SeqUpTo(MonthKeys, MaxMonths)
    /\ callPc = "idle"
    /\ taskPc = [i \in 1..Len(aMonths) |-> "created"]
    /\ taskRes = [i \in 1..Len(aMonths) |-> 0]
    /\ order = <<>>
    /\ ret = <<>>
    /\ deadline = FALSE

\* tasks = [calc_month(m) for m in months]; await asyncio.gather(*tasks)
CallExpensesByMonth ==
    /\ callPc = "idle"
    /\ callPc' = "gather"
    /\ UNCHANGED <<aTrans, aMonths, taskPc, taskRes, order, ret, deadline, reportVars, appVars>>

\* a task runs up to await asyncio.sleep(0.01)
TaskStart(i) ==
    /\ callPc = "gather"
    /\ taskPc[i] = "created"
    /\ taskPc' = [taskPc EXCEPT ![i] = "sleeping"]
    /\ UNCHANGED <<aTrans, aMonths, callPc, taskRes, order, ret, deadline, reportVars, appVars>>

\* the sleep is over: the task computes its sum and returns, or raises
TaskResume(i) ==
    /\ callPc = "gather"
    /\ taskPc[i] = "sleeping"
    /\ IF calc_month_raises(aMonths[i], aTrans)
       THEN /\ taskPc' = [taskPc EXCEPT ![i] = "failed"]
            /\ UNCHANGED taskRes
       ELSE /\ taskPc' = [taskPc EXCEPT ![i] = "done"]
            /\ taskRes' = [taskRes EXCEPT ![i] = calc_month(aMonths[i], aTrans)]
    /\ order' = Append(order, i)
    /\ UNCHANGED <<aTrans, aMonths, callPc, ret, deadline, reportVars, appVars>>

\* results = await asyncio.gather(*tasks); return dict(zip(months, results))
GatherReturn ==
    /\ callPc = "gather"
    /\ GatherReady
    /\ callPc' = "returned"
    /\ ret' = DictZip(aMonths, GatherResults)
    /\ UNCHANGED <<aTrans, aMonths, taskPc, taskRes, order, deadline, reportVars, appVars>>

\* the exception of a child leaves gather and expenses_by_month
GatherRaise ==
    /\ callPc = "gather"
    /\ GatherFailed
    /\ callPc' = "raised"
    /\ UNCHANGED <<aTrans, aMonths, taskPc, taskRes, order, ret, deadline, reportVars, appVars>>

\* asyncio.run cancels the tasks still pending when run_report has raised
CancelPending ==
    /\ callPc = "raised"
    /\ \E i \in Tasks : taskPc[i] \in {"created", "sleeping"}
    /\ taskPc' = [i \in Tasks |-> IF Finished(i) THEN taskPc[i] ELSE "cancelled"]
    /\ UNCHANGED <<aTrans, aMonths, callPc, taskRes, order, ret, deadline, reportVars, appVars>>

\* time passes while a task is still pending; the call takes no deadline and
\* its caller sets none, so nothing reads the clock
DeadlinePasses ==
    /\ callPc = "gather"
    /\ ~deadline
    /\ \E i \in Tasks : ~Finished(i)
    /\ deadline' = TRUE
    /\ UNCHANGED <<aTrans, aMonths, callPc, taskPc, taskRes, order, ret, reportVars, appVars>>

NextAsync ==
    \/ CallExpensesByMonth
    \/ \E i \in Tasks : TaskStart(i)
    \/ \E i \in Tasks : TaskResume(i)
    \/ GatherReturn
    \/ GatherRaise
    \/ CancelPending
    \/ DeadlinePasses

----------------------------------------------------------------------------
(* Domain values of the session state *)

Now == <<2, 1>>                 \* datetime.datetime.now().isoformat()

Acc(id, name, balance) == [id |-> id, name |-> name, balance |-> balance, currency |-> "USD"]
Cat(id, name) == [id |-> id, name |-> name]
Tx(id, account_id, cat_id, amount, ts, note) ==
    [id |-> id, account_id |-> account_id, cat_id |-> cat_id, amount |-> amount,
     ts |-> ts, note |-> note]

SeedAccounts == <<Acc("acc1", "Main", 1000), Acc("acc2", "Savings", 500)>>
SeedCategories == {<<Cat("food", "Food"), Cat("rent", "Rent")>>,
                   <<Cat("food", "Food"), Cat("cat_general", "General")>>}
SeedBudgets == <<[id |-> "b1", cat_id |-> "food", limit |-> 300]>>
SeedTransactions == <<Tx(<<"t", 1>>, "acc1", "food", -200, <<1, 1>>, "groceries"),
                      Tx(<<"t", 2>>, "acc2", "food", -150, <<1, 2>>, "lunch")>>

\* load_seed: the data the session starts from
Seeds ==
    {[accounts |-> SeedAccounts, categories |-> cs,
      transactions |-> SubSeq(SeedTransactions, 1, n), budgets |-> SeedBudgets,
      alerts |-> <<>>] : cs \in SeedCategories, n \in 0..Len(SeedTransactions)}

Users == {"admin", "user1"}

\* get_user_accounts: None (<<>>) for the admin, else <<the set of account ids>>
get_user_accounts(u) ==
    CASE u = "admin" -> <<>>
      [] u = "user1" -> <<{"acc1"}>>
      [] u = "user2" -> <<{"acc2"}>>

get_user_role(u) == IF u = "admin" THEN "admin" ELSE "user"

----------------------------------------------------------------------------
(* core/state_utils.py: each reducer yields the dict it was handed as it is  *)
(* after the call (arg) and the dict it returns (ret)                        *)

\* new_data.get(key, default)
Get(d, key, default) == IF key \in DOMAIN d THEN d[key] ELSE default

\* int(x) of a value that is an int
int(x) == x

\* faulty variant: state["accounts"] = new_accounts; return state
update_account_balance_in_place(s, acc_id, new_balance) ==
    LET accounts == s.accounts
        new_accounts ==
            [i \in 1..Len(accounts) |->
                IF accounts[i].id = acc_id
                THEN [id |-> accounts[i].id, name |-> accounts[i].name,
                      balance |-> new_balance, currency |-> accounts[i].currency]
                ELSE accounts[i]]
        mutated == [s EXCEPT !.accounts = new_accounts]
    IN [arg |-> mutated, ret |-> mutated]

update_account_balance(s, acc_id, new_balance) ==
    LET accounts == s.accounts
        new_accounts ==
            [i \in 1..Len(accounts) |->
                IF accounts[i].id = acc_id
                THEN [id |-> accounts[i].id, name |-> accounts[i].name,
                      balance |-> new_balance, currency |-> accounts[i].currency]
                ELSE accounts[i]]
    IN [arg |-> s, ret |-> [s EXCEPT !.accounts = new_accounts]]

create_transaction(s, t) ==
    LET new_transactions == s.transactions \o <<t>>
    IN [arg |-> s, ret |-> [s EXCEPT !.transactions = new_transactions]]

update_transaction(s, t_id, new_data) ==
    LET transactions == s.transactions
        new_transactions ==
            [i \in 1..Len(transactions) |->
                IF transactions[i].id = t_id
                THEN [id |-> transactions[i].id,
                      account_id |-> Get(new_data, "account_id", transactions[i].account_id),
                      cat_id |-> Get(new_data, "cat_id", transactions[i].cat_id),
                      amount |-> int(Get(new_data, "amount", transactions[i].amount)),
                      ts |-> Get(new_data, "ts", transactions[i].ts),
                      note |-> Get(new_data, "note", transactions[i].note)]
                ELSE transactions[i]]
    IN [arg |-> s, ret |-> [s EXCEPT !.transactions = new_transactions]]

\* faulty variant: the comparison inverted, only the named transaction is kept
delete_transaction_inverted(s, t_id) ==
    LET keep(t) == t.id = t_id
        new_transactions == SelectSeq(s.transactions, keep)
    IN [arg |-> s, ret |-> [s EXCEPT !.transactions = new_transactions]]

delete_transaction(s, t_id) ==
    LET keep(t) == t.id # t_id
        new_transactions == SelectSeq(s.transactions, keep)
    IN [arg |-> s, ret |-> [s EXCEPT !.transactions = new_transactions]]

----------------------------------------------------------------------------
(* core/frp.py: the event bus and its two handlers *)

\* the balance-update handler: appends the payload transaction and applies
\* its signed amount to the account it references
on_transaction_added(evt, s) ==
    LET t == evt.payload.transaction
        new_accounts ==
            [i \in 1..Len(s.accounts) |->
                IF s.accounts[i].id = t.account_id
                THEN [s.accounts[i] EXCEPT !.balance = @ + t.amount]
                ELSE s.accounts[i]]
    IN [s EXCEPT !.transactions = Append(@, t), !.accounts = new_accounts]

\* check_budget: Err {error, limit, spent} when the category spend exceeds
\* the limit
check_budget_fails(b, trans) == Spent(b, trans) > b.limit

BudgetAlert(b, trans) == [budget |-> b.id, limit |-> b.limit, spent |-> Spent(b, trans)]

\* the budget-check handler: one alert per budget over its limit, recomputed
\* from scratch
check_budget_handler(evt, s) ==
    LET over(b) == check_budget_fails(b, s.transactions)
        hit == SelectSeq(s.budgets, over)
    IN [s EXCEPT !.alerts = @ \o [i \in 1..Len(hit) |-> BudgetAlert(hit[i], s.transactions)]]

RunHandler(h, evt, s) ==
    CASE h = "on_transaction_added" -> on_transaction_added(evt, s)
      [] h = "check_budget_handler" -> check_budget_handler(evt, s)

\* faulty variant: the balance handler subscribed under another event name
SubscriptionsMisnamed ==
    <<[name |-> "TRANSACTION_CREATED", handler |-> "on_transaction_added"],
      [name |-> "TRANSACTION_ADDED", handler |-> "check_budget_handler"]>>

\* faulty variant: the budget check subscribed before the balance handler
SubscriptionsSwapped ==
    <<[name |-> "TRANSACTION_ADDED", handler |-> "check_budget_handler"],
      [name |-> "TRANSACTION_ADDED", handler |-> "on_transaction_added"]>>

\* bus.subscribe calls of the start-up, in order
Subscriptions ==
    <<[name |-> "TRANSACTION_ADDED", handler |-> "on_transaction_added"],
      [name |-> "TRANSACTION_ADDED", handler |-> "check_budget_handler"]>>

\* StateEventBus.publish: folds the handlers subscribed under evt.name, in
\* subscription order
RECURSIVE Fold(_, _, _)
Fold(subs, evt, s) ==
    IF subs = <<>> THEN s
    ELSE Fold(Tail(subs), evt,
              IF Head(subs).name = evt.name THEN RunHandler(Head(subs).handler, evt, s) ELSE s)

publish(evt, s) == Fold(Subscriptions, evt, s)

----------------------------------------------------------------------------
(* app/main.py: what one script run sees, and the operations of its pages *)

\* accounts / transactions after the role filter
VisibleAccounts(s, u) ==
    LET allowed == get_user_accounts(u)
        mine(a) == a.id \in allowed[1]
    IN IF allowed = <<>> THEN s.accounts ELSE SelectSeq(s.accounts, mine)

VisibleTransactions(s, u) ==
    LET allowed == get_user_accounts(u)
        mine(t) == t.account_id \in allowed[1]
    IN IF allowed = <<>> THEN s.transactions ELSE SelectSeq(s.transactions, mine)

\* next(c.id for c in categories if c.name == cat)
CatIdOfName(s, name) ==
    LET named(c) == c.name = name
    IN SelectSeq(s.categories, named)[1].id

CategoryNames(s) == {s.categories[i].name : i \in 1..Len(s.categories)}

\* Async/FRP page: the Transaction built for the event
NewEventTransaction(s, u, amt, cat) ==
    Tx(<<"tx_evt", Len(VisibleTransactions(s, u))>>, VisibleAccounts(s, u)[1].id,
       CatIdOfName(s, cat), amt, Now, "Event TX")

NewEvent(s, u, amt, cat) ==
    [id |-> <<"evt", Len(VisibleTransactions(s, u))>>, ts |-> Now,
     name |-> "TRANSACTION_ADDED",
     payload |-> [transaction |-> NewEventTransaction(s, u, amt, cat)]]

\* Manage Users: target_acc_ids, target_accounts, target_trans
TargetUsers == {"user1", "user2"}
TargetAccountIds(target) == get_user_accounts(target)[1]
TargetAccounts(s, target) ==
    LET mine(a) == a.id \in TargetAccountIds(target)
    IN SelectSeq(s.accounts, mine)
TargetTransactions(s, target) ==
    LET mine(t) == t.account_id \in TargetAccountIds(target)
    IN SelectSeq(s.transactions, mine)

\* Manage Users: the Transaction built by Create
NewAdminTransaction(s, acc_id, amt, note, hex) ==
    Tx(<<"tx", Len(s.transactions), hex>>, acc_id, "cat_general", int(amt), Now, note)

EventAmounts == {-200, -50}         \* number_input("Amount", -1000, 1000, -100)
NewBalances == {0}                  \* number_input(f"Balance for {acc.id}")
EditAmounts == {-70}                \* number_input("Amount", value=curr_t.amount)
EditNotes == {"edited"}
CreateAmounts == {-30}              \* number_input("Amount", 0)
CreateNotes == {"New Tx"}
HexSuffixes == {"a1b2", "c3d4"}        \* uuid.uuid4().hex[:4]
NoOp == [op |-> "seed"]

InitApp ==
    /\ state \in Seeds
    /\ user = ""
    /\ ops = 0
    /\ lastOp = NoOp

\* login form
Login(u) ==
    /\ user = ""
    /\ user' = u
    /\ UNCHANGED <<state, ops, lastOp, reportVars, asyncVars>>

\* sidebar Logout
Logout ==
    /\ user # ""
    /\ user' = ""
    /\ UNCHANGED <<state, ops, lastOp, reportVars, asyncVars>>

\* Manage Users: Update Balance
UpdateBalance(target, acc_id, new_bal) ==
    /\ get_user_role(user) = "admin" /\ user # ""
    /\ ops < MaxOps
    /\ acc_id \in {a.id : a \in Range(TargetAccounts(state, target))}
    /\ state' = update_account_balance(state, acc_id, new_bal).ret
    /\ ops' = ops + 1
    /\ lastOp' = [op |-> "update_account_balance", id |-> acc_id]
    /\ UNCHANGED <<user, reportVars, asyncVars>>

\* Manage Users: Update Transaction
UpdateTransaction(target, t_id, amt, note) ==
    /\ get_user_role(user) = "admin" /\ user # ""
    /\ ops < MaxOps
    /\ t_id \in {t.id : t \in Range(TargetTransactions(state, target))}
    /\ state' = update_transaction(state, t_id, [amount |-> amt, note |-> note]).ret
    /\ ops' = ops + 1
    /\ lastOp' = [op |-> "update_transaction", id |-> t_id]
    /\ UNCHANGED <<user, reportVars, asyncVars>>

\* Manage Users: Delete Transaction
DeleteTransaction(target, t_id) ==
    /\ get_user_role(user) = "admin" /\ user # ""
    /\ ops < MaxOps
    /\ t_id \in {t.id : t \in Range(TargetTransactions(state, target))}
    /\ state' = delete_transaction(state, t_id).ret
    /\ ops' = ops + 1
    /\ lastOp' = [op |-> "delete_transaction", id |-> t_id]
    /\ UNCHANGED <<user, reportVars, asyncVars>>

\* Manage Users: Create
CreateTransaction(target, acc_id, amt, note, hex) ==
    /\ get_user_role(user) = "admin" /\ user # ""
    /\ ops < MaxOps
    /\ acc_id \in {a.id : a \in Range(TargetAccounts(state, target))}
    /\ LET new_t == NewAdminTransaction(state, acc_id, amt, note, hex)
       IN /\ state' = create_transaction(state, new_t).ret
          /\ lastOp' = [op |-> "create_transaction", id |-> new_t.id]
    /\ ops' = ops + 1
    /\ UNCHANGED <<user, reportVars, asyncVars>>

\* Async/FRP page: Publish TRANSACTION_ADDED
PublishTransactionAdded(amt, cat) ==
    /\ user # ""
    /\ ops < MaxOps
    /\ cat \in CategoryNames(state)
    /\ VisibleAccounts(state, user) # <<>>
    /\ LET evt == NewEvent(state, user, amt, cat)
       IN /\ state' = publish(evt, state)
          /\ lastOp' = [op |-> "publish", id |-> evt.payload.transaction.id]
    /\ ops' = ops + 1
    /\ UNCHANGED <<user, reportVars, asyncVars>>

Next ==
    \/ \E u \in Users : Login(u)
    \/ Logout
    \/ \E target \in TargetUsers, acc_id \in {"acc1", "acc2"}, b \in NewBalances :
           UpdateBalance(target, acc_id, b)
    \/ \E target \in TargetUsers, t \in Range(state.transactions), amt \in EditAmounts,
          note \in EditNotes : UpdateTransaction(target, t.id, amt, note)
    \/ \E target \in TargetUsers, t \in Range(state.transactions) :
           DeleteTransaction(target, t.id)
    \/ \E target \in TargetUsers, acc_id \in {"acc1", "acc2"}, amt \in CreateAmounts,
          note \in CreateNotes, hex \in HexSuffixes :
           CreateTransaction(target, acc_id, amt, note, hex)
    \/ \E amt \in EventAmounts, cat \in {"Food", "Rent", "General"} :
           PublishTransactionAdded(amt, cat)

ReportIdle == rBudgets = <<>> /\ rTrans = <<>> /\ report = <<>>

AsyncIdle ==
    /\ aTrans = <<>> /\ aMonths = <<>> /\ callPc = "idle" /\ taskPc = <<>>
    /\ taskRes = <<>> /\ order = <<>> /\ ret = <<>> /\ deadline = FALSE

AppIdle ==
    /\ state = [accounts |-> <<>>, categories |-> <<>>, transactions |-> <<>>,
                budgets |-> <<>>, alerts |-> <<>>]
    /\ user = "" /\ ops = 0 /\ lastOp = NoOp

InitSession == InitApp /\ ReportIdle /\ AsyncIdle

Spec == InitSession /\ [][Next]_vars

InitReportOnly == InitReport /\ AsyncIdle /\ AppIdle

SpecReport == InitReportOnly /\ [][NextReport]_vars

InitAsyncOnly == InitAsync /\ ReportIdle /\ AppIdle

SpecAsync == InitAsyncOnly /\ [][NextAsync]_vars

----------------------------------------------------------------------------
(* Properties *)

\* sum of f over a finite index set
RECURSIVE SumOver(_, _)
SumOver(S, f) ==
    IF S = {} THEN 0
    ELSE LET x == CHOOSE y \in S : TRUE IN f[x] + SumOver(S \ {x}, f)

\* total of the expenses (amount < 0) among the transactions picked by idx
ExpenseTotal(trans, idx) ==
    SumOver({i \in idx : trans[i].amount < 0}, [i \in 1..Len(trans) |-> 0 - trans[i].amount])

\* C1: monthly_report has, for every budget b, an entry under b.id with
\* limit = b.limit, spent = the total of abs(amount) over exactly the
\* transactions of b.cat_id with amount < 0, and status OVER iff spent > limit
\* (OK otherwise, spent = limit included).
C1_MonthlyReport ==
    report # <<>> =>
        \A k \in 1..Len(rBudgets) :
            LET b == rBudgets[k]
                spent == ExpenseTotal(rTrans, {i \in 1..Len(rTrans) : rTrans[i].cat_id = b.cat_id})
            IN /\ b.id \in DOMAIN report
               /\ report[b.id].limit = b.limit
               /\ report[b.id].spent = spent
               /\ report[b.id].status \in {"OK", "OVER"}
               /\ report[b.id].status = "OVER" <=> spent > b.limit

\* expenses 200 and 150 on a category with limit 300: spent 350, OVER
C1_Witness ==
    /\ rTrans = <<[cat_id |-> "food", amount |-> -200], [cat_id |-> "food", amount |-> -150]>>
    /\ rBudgets = <<[id |-> "b1", cat_id |-> "food", limit |-> 300]>>
    /\ report # <<>>
    /\ report["b1"] = [limit |-> 300, spent |-> 350, status |-> "OVER"]

\* C2: the mapping expenses_by_month returns has exactly the requested months
\* as keys (a month without expenses is present with 0), each value the total
\* of abs(amount) over the transactions with amount < 0 whose ts starts with
\* the month key.
C2_ExpensesByMonth ==
    callPc = "returned" =>
        /\ DOMAIN ret = Range(aMonths)
        /\ \A m \in Range(aMonths) :
              ret[m] = ExpenseTotal(aTrans, {i \in 1..Len(aTrans) :
                                               /\ Len(aTrans[i].ts) >= Len(m)
                                               /\ \A j \in 1..Len(m) : aTrans[i].ts[j] = m[j]})

\* a requested month without any transaction is present with 0
C2_Witness ==
    /\ callPc = "returned"
    /\ aMonths = <<<<1>>, <<2>>>>
    /\ aTrans = <<[ts |-> <<1, 1>>, amount |-> -2], [ts |-> <<1, 1>>, amount |-> 3]>>
    /\ ret[<<1>>] = 2
    /\ ret[<<2>>] = 0

\* C3: whatever the order in which the calc_month tasks resume and finish,
\* the returned mapping is the one a sequential evaluation gives: every month
\* is paired with its own sum.
C3_OrderIndependent ==
    callPc = "returned" =>
        /\ ret = DictZip(aMonths, [i \in Tasks |-> calc_month(aMonths[i], aTrans)])
        /\ \A i \in Tasks : ret[aMonths[i]] = calc_month(aMonths[i], aTrans)

\* the second month's task finished first and the two sums differ
C3_Witness ==
    /\ callPc = "returned"
    /\ Len(aMonths) = 2
    /\ order = <<2, 1>>
    /\ taskRes[1] # taskRes[2]

\* C4: when the computation of one requested month fails, the call returns
\* no mapping at all, at no point of any run.
C4_FailureIsWhole ==
    (\E i \in Tasks : calc_month_raises(aMonths[i], aTrans)) =>
        /\ callPc # "returned"
        /\ ret = <<>>

\* one month succeeded, another failed, and the call raised
C4_Witness ==
    /\ callPc = "raised"
    /\ \E i, j \in Tasks : taskPc[i] = "done" /\ taskPc[j] = "failed"

\* C5: when the deadline passes before every month's task has completed, the
\* caller gets a Timeout error and never a mapping.
C5_TimeoutOnDeadline == deadline => callPc # "returned"

\* the balance of the account acc_id in s (0 when there is none)
BalanceOf(s, acc_id) ==
    SumOver({i \in 1..Len(s.accounts) : s.accounts[i].id = acc_id},
            [i \in 1..Len(s.accounts) |-> s.accounts[i].balance])

\* the events the Async/FRP page can publish from the current script run
PublishableEvents ==
    IF user = "" \/ VisibleAccounts(state, user) = <<>> THEN {}
    ELSE {NewEvent(state, user, amt, cat) : amt \in EventAmounts, cat \in CategoryNames(state)}

\* C6: every publish of a TRANSACTION_ADDED event appends the payload
\* transaction to state.transactions and adds its signed amount to the balance
\* of the account it references, without deduplication: the same event
\* published twice appends the transaction twice and moves the balance by
\* twice the amount.
C6_PublishApplies ==
    \A evt \in PublishableEvents :
        LET t == evt.payload.transaction
            s1 == publish(evt, state)
            s2 == publish(evt, s1)
        IN /\ s1.transactions = state.transactions \o <<t>>
           /\ s2.transactions = state.transactions \o <<t, t>>
           /\ \A a \in Range(state.accounts) :
                 LET delta == IF a.id = t.account_id THEN t.amount ELSE 0
                 IN /\ BalanceOf(s1, a.id) = BalanceOf(state, a.id) + delta
                    /\ BalanceOf(s2, a.id) = BalanceOf(state, a.id) + 2 * delta

\* balance 1000, amount -50: 950 after one publish, 900 after two
C6_Witness ==
    /\ lastOp.op = "publish"
    /\ ops = 2
    /\ Len(state.transactions) >= 2
    /\ state.transactions[Len(state.transactions)].amount = -50
    /\ state.transactions[Len(state.transactions) - 1].amount = -50
    /\ BalanceOf(state, "acc1") = 900

\* the alerts of the budgets over their limit given the transactions trans
AlertsDue(s, trans) ==
    LET over(b) == Spent(b, trans) > b.limit
        hit == SelectSeq(s.budgets, over)
    IN [i \in 1..Len(hit) |-> [budget |-> hit[i].id, limit |-> hit[i].limit,
                               spent |-> Spent(hit[i], trans)]]

\* C7: with the start-up subscriptions a publish runs on_transaction_added and
\* then check_budget_handler on its output: the budget check sees the
\* published transaction, so every budget over its limit once the transaction
\* is counted gets its alert appended in the same publish; an event name
\* without subscriber leaves the state as it is.
C7_HandlersInOrder ==
    \A evt \in PublishableEvents :
        LET t == evt.payload.transaction
            s1 == publish(evt, state)
        IN /\ s1.alerts = state.alerts \o AlertsDue(state, state.transactions \o <<t>>)
           /\ \A k \in 1..Len(state.budgets) :
                 Spent(state.budgets[k], state.transactions \o <<t>>) > state.budgets[k].limit =>
                     \E i \in (Len(state.alerts) + 1)..Len(s1.alerts) :
                         s1.alerts[i].budget = state.budgets[k].id
           /\ publish([evt EXCEPT !.name = "BUDGET_CHANGED"], state) = state

\* the published transaction pushed budget b1 over its limit and the alert
\* came with that publish
C7_Witness ==
    /\ lastOp.op = "publish"
    /\ ops = 1
    /\ Len(state.alerts) = 1
    /\ state.alerts[1].budget = "b1"
    /\ Spent(SeedBudgets[1], SubSeq(state.transactions, 1, Len(state.transactions) - 1)) <= 300
    /\ Spent(SeedBudgets[1], state.transactions) > 300

ReducerAccountIds == {"acc1", "acc2", "acc9"}
ReducerBalances == {0, 7}
ReducerNewData == {[amount |-> -70, note |-> "edited"], [cat_id |-> "rent"], <<>>}
ReducerNewTransaction == Tx(<<"tx", 9, "ffff">>, "acc1", "food", -30, Now, "New Tx")
ReducerTransactionIds == {t.id : t \in Range(state.transactions)} \cup {<<"t", 9>>}

\* what a reducer must leave alone: its input dict, and in the dict it
\* returns every key but the one it targets
Untouched(r, s, target) ==
    /\ r.arg = s
    /\ \A key \in DOMAIN s \ {target} : r.ret[key] = s[key]
    /\ DOMAIN r.ret = DOMAIN s

\* C8: the reducers never mutate: update_account_balance, create_transaction,
\* update_transaction and delete_transaction leave their input state as it
\* was and return a state in which everything but the targeted sequence
\* (accounts for the first, transactions for the other three) is the old one.
C8_ReducersDoNotMutate ==
    /\ \A acc_id \in ReducerAccountIds, b \in ReducerBalances :
          Untouched(update_account_balance(state, acc_id, b), state, "accounts")
    /\ Untouched(create_transaction(state, ReducerNewTransaction), state, "transactions")
    /\ \A t_id \in ReducerTransactionIds :
          /\ Untouched(delete_transaction(state, t_id), state, "transactions")
          /\ \A d \in ReducerNewData :
                Untouched(update_transaction(state, t_id, d), state, "transactions")

\* a reducer has produced the state, which holds accounts, transactions and
\* an alert that the next reducer call must leave alone
C8_Witness ==
    /\ lastOp.op = "update_account_balance"
    /\ BalanceOf(state, "acc1") = 0
    /\ state.transactions # <<>>
    /\ state.alerts # <<>>

\* C9: no two transactions of state.transactions have the same id.
C9_UniqueTransactionIds ==
    \A i, j \in 1..Len(state.transactions) :
        state.transactions[i].id = state.transactions[j].id => i = j

\* C10: every transaction references an account of state.accounts and a
\* category of state.categories.
C10_ReferentialIntegrity ==
    \A t \in Range(state.transactions) :
        /\ t.account_id \in {a.id : a \in Range(state.accounts)}
        /\ t.cat_id \in {c.id : c \in Range(state.categories)}

\* transactions a caller may hand to create_transaction in the current state
RoundTripCandidates ==
    {ReducerNewTransaction}
        \cup {NewAdminTransaction(state, acc_id, amt, note, hex) :
                acc_id \in {"acc1", "acc2"}, amt \in CreateAmounts, note \in CreateNotes,
                hex \in HexSuffixes}
        \cup {Tx(<<"tx_evt", n>>, "acc1", "food", -50, Now, "Event TX") :
                n \in 0..Len(state.transactions)}

IdsIn(s) == {s.transactions[i].id : i \in 1..Len(s.transactions)}

\* C11: create followed by delete is a round trip on the transactions: for a
\* transaction t whose id no transaction of the state has,
\* delete_transaction(create_transaction(state, t), t.id) has the same
\* transactions in the same order as state; delete_transaction and
\* update_transaction with an id no transaction has return the transactions
\* unchanged.
C11_CreateDeleteRoundTrip ==
    /\ \A t \in RoundTripCandidates :
          t.id \notin IdsIn(state) =>
              /\ create_transaction(state, t).ret.transactions = state.transactions \o <<t>>
              /\ delete_transaction(create_transaction(state, t).ret, t.id).ret.transactions
                     = state.transactions
    /\ \A t_id \in ReducerTransactionIds :
          t_id \notin IdsIn(state) =>
              /\ delete_transaction(state, t_id).ret.transactions = state.transactions
              /\ \A d \in ReducerNewData :
                    update_transaction(state, t_id, d).ret.transactions = state.transactions

\* the session created a transaction with a fresh id and then deleted it:
\* the seeded transactions are back, in their order
C11_Witness ==
    /\ lastOp.op = "delete_transaction"
    /\ ops = 2
    /\ lastOp.id = <<"tx", 2, "a1b2">>
    /\ state.transactions = SeedTransactions

====
